---- MODULE Spec2Model ----
(***************************************************************************)
(* Task lifecycle, inspection results and inspection acts of jkh-server.   *)
(*                                                                         *)
(* Every request handler runs in its own goroutine against the shared      *)
(* database, so a service method is modelled as a sequence of steps, one   *)
(* per database (or file system) round trip, executed by a caller in       *)
(* Callers.  The local variables of a call live in calls[p].               *)
(***************************************************************************)
EXTENDS Integers, Sequences, FiniteSets, TLC

(***************************************************************************)
(* Bounds of the model                                                     *)
(***************************************************************************)
MaxResultRows == 2       \* inspection_results rows ever inserted
MaxTime == 2             \* seconds on the clock
MaxUsers == 3            \* users rows ever inserted

\* the requests in flight at one time
Callers == {"c1", "c2"}

\* the task ids requests name; CreateTask creates the tasks
TaskIDs == {1}

(***************************************************************************)
(* Enumerations and fixed strings of the program                           *)
(***************************************************************************)
Statuses == <<"New", "Pending", "InProgress", "OnReview", "ForRevision", "Approved", "Canceled">>

StatusSet == {Statuses[i] : i \in 1..Len(Statuses)}

ConditionStatuses == <<"Ispravnoe", "Udovletvoritelnoe", "Neudovletvoritelnoe", "Avariynoe">>

\* a comment that is absent (a nil *string, a NULL column)
NULL == "NULL"

\* the request bodies of CreateOrUpdateResult the model sends
Requests == {[condition_status |-> ConditionStatuses[1], comment |-> NULL],
             [condition_status |-> ConditionStatuses[4], comment |-> "note"]}

ActStatusDrafted == "drafted"

ActStatusApproved == "approved"

DraftConclusion == "Inspection done. Awaiting review by the coordinator."

ApprovalConclusion == "Inspection act approved by the coordinator."

(***************************************************************************)
(* Checklist catalog (static reference data): checklist 1 has the elements *)
(* 1 and 2, checklist 2 has the elements 3, 4 and 5.                       *)
(***************************************************************************)
ChecklistIDs == {1, 2}

\* the checklists the tasks of the model are created against
TaskChecklists == {1}

ChecklistElements == {[id |-> 1, checklist_id |-> 1, order_index |-> 2],
                      [id |-> 2, checklist_id |-> 1, order_index |-> 1],
                      [id |-> 3, checklist_id |-> 2, order_index |-> 2],
                      [id |-> 4, checklist_id |-> 2, order_index |-> 1],
                      [id |-> 5, checklist_id |-> 2, order_index |-> 3]}

ElementIDs == {e.id : e \in ChecklistElements}

\* the elements the result requests of Spec name: those of checklist 1 and one
\* of another checklist
RequestElements == {1, 2, 3}

\* the checklist of the task of SpecScenario, and its elements
ScenarioChecklist == 2

ScenarioElements ==
    {e.id : e \in {x \in ChecklistElements : x.checklist_id = ScenarioChecklist}}

(***************************************************************************)
(* State                                                                   *)
(***************************************************************************)
VARIABLES tasks,        \* table tasks: set of rows
          nextTaskID,   \* its auto-increment
          results,      \* table inspection_results: set of rows
          nextResultID, \* its auto-increment
          acts,         \* table inspection_acts: set of rows
          nextActID,    \* its auto-increment
          files,        \* the storage directory: set of [path, data]
          now,          \* the clock
          users,        \* table users: set of ids
          nextUserID,   \* its auto-increment
          inspectorUnits, \* table inspector_units: the users assigned to the unit
          everOnReview, \* history: the tasks whose status has been OnReview
          calls         \* per caller: position and locals of the call in flight

vars == <<tasks, nextTaskID, results, nextResultID, acts, nextActID, files, now,
          users, nextUserID, inspectorUnits, everOnReview, calls>>

\* document_path = ""
NoPath == <<0, 0>>

\* no bytes
NoData == [number |-> 0, status |-> "", approved_at |-> 0, conclusion |-> "", rows |-> <<>>]

\* a nil *ent.InspectionAct
NilAct == [id |-> 0, task_id |-> 0, status |-> "", conclusion |-> "",
           created_at |-> 0, approved_at |-> 0, document_path |-> NoPath]

Idle == [pc |-> "idle", op |-> "", taskID |-> 0, newStatus |-> "",
         elem |-> 0, cond |-> "", comment |-> "", existing |-> 0,
         act |-> NilAct, pdfData |-> NoData, filename |-> NoPath,
         ret |-> "", log |-> "", handler |-> "",
         userID |-> 0, authID |-> 0]

\* the account created by seed_admin
Admin == 1

\* the inspector of the installation, assigned to the unit of its buildings
Inspector == 2

Init ==
    /\ tasks = {}
    /\ nextTaskID = 1
    /\ results = {}
    /\ nextResultID = 1
    /\ acts = {}
    /\ nextActID = 1
    /\ files = {}
    /\ now = 1
    /\ users = {Admin, Inspector}
    /\ nextUserID = 3
    /\ inspectorUnits = {Inspector}
    /\ everOnReview = {}
    /\ calls = [p \in Callers |-> Idle]

(***************************************************************************)
(* Queries                                                                 *)
(***************************************************************************)
TaskByID(id) == {t \in tasks : t.id = id}

ActsOfTask(taskID) == {a \in acts : a.task_id = taskID}

ResultsOfTask(taskID) == {r \in results : r.task_id = taskID}

ResultsOf(taskID, elem) ==
    {r \in results : r.task_id = taskID /\ r.checklist_element_id = elem}

\* time.Now(): the clock is read; it has not gone back since the last reading
TimeNow == now' \in now..MaxTime

Set(p, rec) == calls' = [calls EXCEPT ![p] = rec]

\* the call returns err to its handler; the locals of the call are gone, the
\* arguments and what was logged stay visible until the response is sent
Finish(p, c, err, logged) ==
    Set(p, [Idle EXCEPT !.pc = "ret", !.op = c.op, !.taskID = c.taskID,
                        !.newStatus = c.newStatus, !.elem = c.elem,
                        !.pdfData = c.pdfData, !.ret = err, !.log = logged,
                        !.handler = c.handler, !.userID = c.userID,
                        !.authID = c.authID])

(***************************************************************************)
(* TaskService                                                             *)
(***************************************************************************)
\* variant: a task sent back for revision can only be submitted again
allowedTransitionsRevisionKept ==
    [s \in StatusSet |->
        CASE s = "New" -> <<"Pending", "Canceled">>
          [] s = "Pending" -> <<"InProgress", "Canceled">>
          [] s = "InProgress" -> <<"OnReview", "Canceled">>
          [] s = "OnReview" -> <<"Approved", "ForRevision">>
          [] s = "ForRevision" -> <<"OnReview">>
          [] s = "Approved" -> <<>>
          [] s = "Canceled" -> <<>>]

allowedTransitions ==
    [s \in StatusSet |->
        CASE s = "New" -> <<"Pending", "Canceled">>
          [] s = "Pending" -> <<"InProgress", "Canceled">>
          [] s = "InProgress" -> <<"OnReview", "Canceled">>
          [] s = "OnReview" -> <<"Approved", "ForRevision">>
          [] s = "ForRevision" -> <<"OnReview", "Canceled">>
          [] s = "Approved" -> <<>>
          [] s = "Canceled" -> <<>>]

\* variant: a request for the status the task already has is accepted
isTransitionAllowedOrSame(currentStatus, newStatus) ==
    \/ currentStatus = newStatus
    \/ /\ currentStatus \in DOMAIN allowedTransitions
       /\ \E i \in 1..Len(allowedTransitions[currentStatus]) :
             allowedTransitions[currentStatus][i] = newStatus

isTransitionAllowed(currentStatus, newStatus) ==
    /\ currentStatus \in DOMAIN allowedTransitions
    /\ \E i \in 1..Len(allowedTransitions[currentStatus]) :
          allowedTransitions[currentStatus][i] = newStatus

\* CreateTask: a coordinator creates a task against a checklist for an
\* inspector; the inspector exists (validateForeignKeys, and the foreign key of
\* the insert) and is assigned to the unit of the building
CreateTaskFor(checklistID, inspectorID) ==
    /\ nextTaskID \in TaskIDs
    /\ inspectorID \in users
    /\ inspectorID \in inspectorUnits
    /\ tasks' = tasks \cup {[id |-> nextTaskID, status |-> "New",
                             checklist_id |-> checklistID,
                             inspector_id |-> inspectorID]}
    /\ nextTaskID' = nextTaskID + 1
    /\ UNCHANGED <<results, nextResultID, acts, nextActID, files, now,
                   users, nextUserID, inspectorUnits, everOnReview, calls>>

\* CreateTask with the inspector of the installation
CreateTask(checklistID) == CreateTaskFor(checklistID, Inspector)

\* variant: the error of the side effect is returned
UpdateTaskStatus_ReturnErr(err) == err

\* UpdateTaskStatus, steps 4-5: an error of CreateOrUpdateAct or ApproveAct is
\* logged and UpdateTaskStatus returns nil
UpdateTaskStatus_Return(err) == "nil"

\* the side effect of UpdateTaskStatus ends with err
FinishSideEffect(p, err) == Finish(p, calls[p], UpdateTaskStatus_Return(err), err)

\* variant: a request for a task that another request is changing is refused
UpdateTaskStatus_LoadSerialized(p, id, newStatus, handler) ==
    /\ calls[p].pc = "idle"
    /\ LET call == [Idle EXCEPT !.op = "UpdateTaskStatus", !.taskID = id,
                                !.newStatus = newStatus, !.handler = handler]
       IN IF TaskByID(id) = {}
          THEN Finish(p, call, "ErrTaskNotFound", "")
          ELSE LET t == CHOOSE x \in TaskByID(id) : TRUE
               IN IF \/ ~isTransitionAllowed(t.status, newStatus)
                     \/ \E q \in Callers \ {p} :
                           calls[q].pc = "uts_update" /\ calls[q].taskID = id
                  THEN Finish(p, call, "ErrInvalidStatusTransition", "")
                  ELSE Set(p, [call EXCEPT !.pc = "uts_update"])
    /\ UNCHANGED <<tasks, nextTaskID, results, nextResultID, acts, nextActID, files, now,
                   users, nextUserID, inspectorUnits, everOnReview>>

\* variant: a task goes to OnReview only with a result for every element of
\* its checklist
UpdateTaskStatus_LoadComplete(p, id, newStatus, handler) ==
    /\ calls[p].pc = "idle"
    /\ LET call == [Idle EXCEPT !.op = "UpdateTaskStatus", !.taskID = id,
                                !.newStatus = newStatus, !.handler = handler]
       IN IF TaskByID(id) = {}
          THEN Finish(p, call, "ErrTaskNotFound", "")
          ELSE LET t == CHOOSE x \in TaskByID(id) : TRUE
               IN IF \/ ~isTransitionAllowed(t.status, newStatus)
                     \/ /\ newStatus = "OnReview"
                        /\ \E e \in ChecklistElements :
                              /\ e.checklist_id = t.checklist_id
                              /\ \A r \in ResultsOfTask(id) :
                                    r.checklist_element_id # e.id
                  THEN Finish(p, call, "ErrInvalidStatusTransition", "")
                  ELSE Set(p, [call EXCEPT !.pc = "uts_update"])
    /\ UNCHANGED <<tasks, nextTaskID, results, nextResultID, acts, nextActID, files, now,
                   users, nextUserID, inspectorUnits, everOnReview>>

\* UpdateTaskStatus, steps 1-2, called by the handler `handler`: load the task
\* and check the transition
UpdateTaskStatus_LoadVia(p, id, newStatus, handler) ==
    /\ calls[p].pc = "idle"
    /\ LET call == [Idle EXCEPT !.op = "UpdateTaskStatus", !.taskID = id,
                                !.newStatus = newStatus, !.handler = handler]
       IN IF TaskByID(id) = {}
          THEN Finish(p, call, "ErrTaskNotFound", "")
          ELSE LET t == CHOOSE x \in TaskByID(id) : TRUE
               IN IF ~isTransitionAllowed(t.status, newStatus)
                  THEN Finish(p, call, "ErrInvalidStatusTransition", "")
                  ELSE Set(p, [call EXCEPT !.pc = "uts_update"])
    /\ UNCHANGED <<tasks, nextTaskID, results, nextResultID, acts, nextActID, files, now,
                   users, nextUserID, inspectorUnits, everOnReview>>

\* UpdateTaskStatus called by the coordinator's handler with the status of
\* the request body
UpdateTaskStatus_Load(p, id, newStatus) ==
    UpdateTaskStatus_LoadVia(p, id, newStatus, "UpdateTaskStatus")

\* variant: the handler asks for Pending
AcceptTaskAsPending(p, id) == UpdateTaskStatus_LoadVia(p, id, "Pending", "AcceptTask")

\* AcceptTask: the inspector's handler calls UpdateTaskStatus with InProgress
AcceptTask(p, id) == UpdateTaskStatus_LoadVia(p, id, "InProgress", "AcceptTask")

\* SubmitTask: the inspector's handler calls UpdateTaskStatus with OnReview
SubmitTask(p, id) == UpdateTaskStatus_LoadVia(p, id, "OnReview", "SubmitTask")

\* the HTTP status AcceptTask and SubmitTask answer with for the error err of
\* UpdateTaskStatus
TaskHandlerResponse(err) ==
    CASE err = "nil" -> 200
      [] err = "ErrTaskNotFound" -> 404
      [] err = "ErrInvalidStatusTransition" -> 400
      [] OTHER -> 500

\* variant: the act is drafted on a cancellation too
SideEffectOfClosing(newStatus) ==
    CASE newStatus \in {"OnReview", "Canceled"} -> "coua_query"
      [] newStatus = "Approved" -> "aa_query"
      [] OTHER -> ""

\* UpdateTaskStatus, steps 4-5: the first step of the side effect of the
\* target, "" when it has none
SideEffectOf(newStatus) ==
    CASE newStatus = "OnReview" -> "coua_query"
      [] newStatus = "Approved" -> "aa_query"
      [] OTHER -> ""

\* UpdateTaskStatus, step 3 and the dispatch of steps 4-5
UpdateTaskStatus_Update(p) ==
    /\ calls[p].pc = "uts_update"
    /\ tasks' = {IF t.id = calls[p].taskID
                 THEN [t EXCEPT !.status = calls[p].newStatus] ELSE t : t \in tasks}
    /\ everOnReview' = IF calls[p].newStatus = "OnReview"
                       THEN everOnReview \cup {calls[p].taskID} ELSE everOnReview
    /\ IF SideEffectOf(calls[p].newStatus) # ""
       THEN Set(p, [calls[p] EXCEPT !.pc = SideEffectOf(calls[p].newStatus)])
       ELSE Finish(p, calls[p], "nil", "")
    /\ UNCHANGED <<nextTaskID, results, nextResultID, acts, nextActID, files, now,
                   users, nextUserID, inspectorUnits>>

(***************************************************************************)
(* InspectionActService                                                    *)
(***************************************************************************)
\* CreateOrUpdateAct: look up the act of the task
CreateOrUpdateAct_Query(p) ==
    /\ calls[p].pc = "coua_query"
    /\ LET found == ActsOfTask(calls[p].taskID)
       IN IF Cardinality(found) > 1
          THEN \* Only: not singular; UpdateTaskStatus logs the error
               FinishSideEffect(p, "database error")
          ELSE IF found = {}
               THEN Set(p, [calls[p] EXCEPT !.pc = "coua_save", !.act = NilAct])
               ELSE Set(p, [calls[p] EXCEPT !.pc = "coua_save",
                                            !.act = CHOOSE a \in found : TRUE])
    /\ UNCHANGED <<tasks, nextTaskID, results, nextResultID, acts, nextActID, files, now,
                   users, nextUserID, inspectorUnits, everOnReview>>

\* CreateOrUpdateAct, step 1 when the query fails (connection lost, request
\* context cancelled): "database error"
CreateOrUpdateAct_QueryFails(p) ==
    /\ calls[p].pc = "coua_query"
    /\ FinishSideEffect(p, "database error")
    /\ UNCHANGED <<tasks, nextTaskID, results, nextResultID, acts, nextActID, files, now,
                   users, nextUserID, inspectorUnits, everOnReview>>

\* variant: task_id without Unique()
ActTaskIDNotUnique(taskID) == TRUE

\* the UNIQUE constraint on inspection_acts.task_id
ActTaskIDUnique(taskID) == ActsOfTask(taskID) = {}

\* variant: the refreshed act is a draft again
SetConclusionAndRedraft(a, conclusion) ==
    [a EXCEPT !.conclusion = conclusion, !.status = ActStatusDrafted]

\* variant: the act goes back to a draft without a document
SetConclusionAsNewDraft(a, conclusion) ==
    [a EXCEPT !.conclusion = conclusion, !.status = ActStatusDrafted,
              !.approved_at = 0, !.document_path = NoPath]

\* UpdateOne(act).SetConclusion(conclusion)
SetConclusion(a, conclusion) == [a EXCEPT !.conclusion = conclusion]

\* CreateOrUpdateAct: update the conclusion of the act found, or create the act
CreateOrUpdateAct_Save(p) ==
    /\ calls[p].pc = "coua_save"
    /\ IF calls[p].act.id # 0
       THEN /\ acts' = {IF a.id = calls[p].act.id
                        THEN SetConclusion(a, DraftConclusion) ELSE a : a \in acts}
            /\ UNCHANGED <<nextActID, now>>
            /\ Finish(p, calls[p], "nil", "")
       ELSE IF ActTaskIDUnique(calls[p].taskID)
            THEN /\ TimeNow
                 /\ acts' = acts \cup {[id |-> nextActID, task_id |-> calls[p].taskID,
                                        status |-> ActStatusDrafted,
                                        conclusion |-> DraftConclusion,
                                        created_at |-> now', approved_at |-> 0,
                                        document_path |-> NoPath]}
                 /\ nextActID' = nextActID + 1
                 /\ Finish(p, calls[p], "nil", "")
            ELSE \* constraint violation: logged by UpdateTaskStatus, not returned
                 /\ UNCHANGED <<acts, nextActID, now>>
                 /\ FinishSideEffect(p, "database error")
    /\ UNCHANGED <<tasks, nextTaskID, results, nextResultID, files,
                   users, nextUserID, inspectorUnits, everOnReview>>

\* the orders in which a query without ORDER BY may return the rows
RECURSIVE Orderings(_)
Orderings(rows) ==
    IF rows = {} THEN {<<>>}
    ELSE UNION {{<<r>> \o rest : rest \in Orderings(rows \ {r})} : r \in rows}

\* generatePDF: the document rendered from an act and the results loaded
generatePDF(act, rs) ==
    [number |-> act.id,
     status |-> act.status,
     approved_at |-> act.approved_at,
     conclusion |-> IF act.conclusion = "" THEN "Inspection done." ELSE act.conclusion,
     rows |-> [i \in 1..Len(rs) |-> <<rs[i].checklist_element_id,
                                      rs[i].condition_status, rs[i].comment>>]]

\* generatePDF: the file name, from the task id and the second of the clock
Filename(act, ts) == <<act.task_id, ts>>

\* os.WriteFile: create or truncate
WriteFile(path, data) ==
    files' = {f \in files : f.path # path} \cup {[path |-> path, data |-> data]}

\* ApproveAct, step 1: load the act
ApproveAct_Query(p) ==
    /\ calls[p].pc = "aa_query"
    /\ LET found == ActsOfTask(calls[p].taskID)
       IN IF found = {}
          THEN FinishSideEffect(p, "ErrActNotFound")
          ELSE IF Cardinality(found) > 1
               THEN FinishSideEffect(p, "database error")
               ELSE Set(p, [calls[p] EXCEPT !.pc = "aa_update",
                                            !.act = CHOOSE a \in found : TRUE])
    /\ UNCHANGED <<tasks, nextTaskID, results, nextResultID, acts, nextActID, files, now,
                   users, nextUserID, inspectorUnits, everOnReview>>

\* ApproveAct, step 1 when the query fails: "database error"
ApproveAct_QueryFails(p) ==
    /\ calls[p].pc = "aa_query"
    /\ FinishSideEffect(p, "database error")
    /\ UNCHANGED <<tasks, nextTaskID, results, nextResultID, acts, nextActID, files, now,
                   users, nextUserID, inspectorUnits, everOnReview>>

\* variant: without SetConclusion
ApprovedKeepConclusion(a, ts) ==
    [a EXCEPT !.approved_at = ts, !.status = ActStatusApproved]

\* ApproveAct: the fields SetApprovedAt, SetStatus and SetConclusion write
Approved(a, ts) ==
    [a EXCEPT !.approved_at = ts, !.status = ActStatusApproved,
              !.conclusion = ApprovalConclusion]

\* ApproveAct, steps 2-3: approval timestamp, status and conclusion, in the
\* database and in the act loaded
ApproveAct_Update(p) ==
    /\ calls[p].pc = "aa_update"
    /\ TimeNow
    /\ acts' = {IF a.id = calls[p].act.id THEN Approved(a, now') ELSE a : a \in acts}
    /\ Set(p, [calls[p] EXCEPT !.pc = "aa_remove",
                               !.act = Approved(calls[p].act, now')])
    /\ UNCHANGED <<tasks, nextTaskID, results, nextResultID, nextActID, files,
                   users, nextUserID, inspectorUnits, everOnReview>>

\* ApproveAct, step 4: remove the draft document, if the act loaded names one
ApproveAct_Remove(p) ==
    /\ calls[p].pc = "aa_remove"
    /\ files' = IF calls[p].act.document_path # NoPath
                THEN {f \in files : f.path # calls[p].act.document_path}
                ELSE files
    /\ Set(p, [calls[p] EXCEPT !.pc = "aa_render"])
    /\ UNCHANGED <<tasks, nextTaskID, results, nextResultID, acts, nextActID, now,
                   users, nextUserID, inspectorUnits, everOnReview>>

\* ApproveAct, steps 5-7: load the results, render and write the document
\* (the file is written right after the query, with no database access between)
ApproveAct_Render(p) ==
    /\ calls[p].pc = "aa_render"
    /\ TimeNow
    /\ \E rs \in Orderings(ResultsOfTask(calls[p].taskID)) :
          WriteFile(Filename(calls[p].act, now'), generatePDF(calls[p].act, rs))
    /\ Set(p, [calls[p] EXCEPT !.pc = "aa_setpath",
                               !.filename = Filename(calls[p].act, now')])
    /\ UNCHANGED <<tasks, nextTaskID, results, nextResultID, acts, nextActID,
                   users, nextUserID, inspectorUnits, everOnReview>>

\* the bytes of a file whose write broke off
TornData == [NoData EXCEPT !.status = "torn"]

\* ApproveAct, step 5 when the results query fails: logged, nil returned
ApproveAct_ResultsFail(p) ==
    /\ calls[p].pc = "aa_render"
    /\ Finish(p, calls[p], "nil", "failed to fetch results for approved PDF")
    /\ UNCHANGED <<tasks, nextTaskID, results, nextResultID, acts, nextActID, files, now,
                   users, nextUserID, inspectorUnits, everOnReview>>

\* ApproveAct, step 6 when generatePDF fails: logged, nil returned
ApproveAct_GenerateFails(p) ==
    /\ calls[p].pc = "aa_render"
    /\ TimeNow
    /\ Finish(p, calls[p], "nil", "failed to generate approved PDF")
    /\ UNCHANGED <<tasks, nextTaskID, results, nextResultID, acts, nextActID, files,
                   users, nextUserID, inspectorUnits, everOnReview>>

\* variant: a failed write takes the approval back
ApproveAct_WriteFailsAndReverts(p) ==
    /\ calls[p].pc = "aa_render"
    /\ TimeNow
    /\ UNCHANGED files
    /\ acts' = {IF a.id = calls[p].act.id
                THEN [a EXCEPT !.status = ActStatusDrafted, !.approved_at = 0]
                ELSE a : a \in acts}
    /\ Finish(p, calls[p], "nil", "failed to save approved PDF")
    /\ UNCHANGED <<tasks, nextTaskID, results, nextResultID, nextActID,
                   users, nextUserID, inspectorUnits, everOnReview>>

\* ApproveAct, step 7 when os.WriteFile fails: the file was not opened, or it
\* was created or truncated and the write broke off; logged, nil returned
ApproveAct_WriteFails(p) ==
    /\ calls[p].pc = "aa_render"
    /\ TimeNow
    /\ \/ UNCHANGED files
       \/ WriteFile(Filename(calls[p].act, now'), TornData)
    /\ Finish(p, calls[p], "nil", "failed to save approved PDF")
    /\ UNCHANGED <<tasks, nextTaskID, results, nextResultID, acts, nextActID,
                   users, nextUserID, inspectorUnits, everOnReview>>

\* ApproveAct, last step: store document_path
ApproveAct_SetPath(p) ==
    /\ calls[p].pc = "aa_setpath"
    /\ acts' = {IF a.id = calls[p].act.id
                THEN [a EXCEPT !.document_path = calls[p].filename] ELSE a : a \in acts}
    /\ Finish(p, calls[p], "nil", "")
    /\ UNCHANGED <<tasks, nextTaskID, results, nextResultID, nextActID, files, now,
                   users, nextUserID, inspectorUnits, everOnReview>>

\* os.ReadFile: the bytes of the file, NoData when there is no such file
ReadFile(path) ==
    IF \E f \in files : f.path = path
    THEN (CHOOSE f \in files : f.path = path).data
    ELSE NoData

\* GeneratePDFForAct, step 1: load the act
GeneratePDFForAct_Query(p, taskID) ==
    /\ calls[p].pc = "idle"
    /\ LET call == [Idle EXCEPT !.op = "GeneratePDFForAct", !.taskID = taskID]
           found == ActsOfTask(taskID)
       IN IF found = {}
          THEN Finish(p, call, "ErrActNotFound", "")
          ELSE IF Cardinality(found) > 1
               THEN Finish(p, call, "database error", "")
               ELSE LET act == CHOOSE a \in found : TRUE
                    IN Set(p, [call EXCEPT !.act = act,
                                           !.pc = IF act.document_path # NoPath
                                                  THEN "gp_read" ELSE "gp_render"])
    /\ UNCHANGED <<tasks, nextTaskID, results, nextResultID, acts, nextActID, files, now,
                   users, nextUserID, inspectorUnits, everOnReview>>

\* variant: the document on disk is never used
GeneratePDFForAct_ReadNever(p) ==
    /\ calls[p].pc = "gp_read"
    /\ Set(p, [calls[p] EXCEPT !.pc = "gp_render"])
    /\ UNCHANGED <<tasks, nextTaskID, results, nextResultID, acts, nextActID, files, now,
                   users, nextUserID, inspectorUnits, everOnReview>>

\* GeneratePDFForAct, step 2: return the document on disk, if it can be read
GeneratePDFForAct_Read(p) ==
    /\ calls[p].pc = "gp_read"
    /\ LET data == ReadFile(calls[p].act.document_path)
       IN IF data # NoData
          THEN Finish(p, [calls[p] EXCEPT !.pdfData = data], "nil", "")
          ELSE Set(p, [calls[p] EXCEPT !.pc = "gp_render"])
    /\ UNCHANGED <<tasks, nextTaskID, results, nextResultID, acts, nextActID, files, now,
                   users, nextUserID, inspectorUnits, everOnReview>>

\* GeneratePDFForAct, steps 3-5: load the results, render and write the document
\* (the file is written right after the query, with no database access between)
GeneratePDFForAct_Render(p) ==
    /\ calls[p].pc = "gp_render"
    /\ TimeNow
    /\ \E rs \in Orderings(ResultsOfTask(calls[p].taskID)) :
          /\ WriteFile(Filename(calls[p].act, now'), generatePDF(calls[p].act, rs))
          /\ Set(p, [calls[p] EXCEPT !.pc = "gp_setpath",
                                     !.pdfData = generatePDF(calls[p].act, rs),
                                     !.filename = Filename(calls[p].act, now')])
    /\ UNCHANGED <<tasks, nextTaskID, results, nextResultID, acts, nextActID,
                   users, nextUserID, inspectorUnits, everOnReview>>

\* GeneratePDFForAct, step 6: store document_path and return the document
GeneratePDFForAct_SetPath(p) ==
    /\ calls[p].pc = "gp_setpath"
    /\ acts' = {IF a.id = calls[p].act.id
                THEN [a EXCEPT !.document_path = calls[p].filename] ELSE a : a \in acts}
    /\ Finish(p, calls[p], "nil", "")
    /\ UNCHANGED <<tasks, nextTaskID, results, nextResultID, nextActID, files, now,
                   users, nextUserID, inspectorUnits, everOnReview>>

(***************************************************************************)
(* InspectionResultService                                                 *)
(***************************************************************************)
\* calls that may still insert a row
Inserting == {q \in Callers : calls[q].pc \in {"cour_query", "cour_save"}}

\* variant: the element is checked before the status
validateElementThenStatus(taskID, checklistElementID) ==
    IF TaskByID(taskID) = {} THEN "ErrTaskNotFound"
    ELSE LET t == CHOOSE x \in TaskByID(taskID) : TRUE
         IN IF ~\E e \in ChecklistElements :
                    e.id = checklistElementID /\ e.checklist_id = t.checklist_id
            THEN "ErrChecklistElementInvalid"
            ELSE IF t.status # "InProgress" THEN "ErrTaskNotInProgress"
                 ELSE "nil"

\* validateTaskAndElement, called first by CreateOrUpdateResult
validateTaskAndElement(taskID, checklistElementID) ==
    IF TaskByID(taskID) = {} THEN "ErrTaskNotFound"
    ELSE LET t == CHOOSE x \in TaskByID(taskID) : TRUE
         IN IF t.status # "InProgress" THEN "ErrTaskNotInProgress"
            ELSE IF ~\E e \in ChecklistElements :
                       e.id = checklistElementID /\ e.checklist_id = t.checklist_id
                 THEN "ErrChecklistElementInvalid"
                 ELSE "nil"

\* a request that passes validation is let in while the rows it and the calls
\* in flight may insert stay within MaxResultRows
RoomForResult(taskID, elem) ==
    validateTaskAndElement(taskID, elem) = "nil"
    => nextResultID + Cardinality(Inserting) <= MaxResultRows

\* CreateOrUpdateResult, step 1
CreateOrUpdateResult_Validate(p, taskID, elem, cond, comment) ==
    /\ calls[p].pc = "idle"
    /\ LET call == [Idle EXCEPT !.op = "CreateOrUpdateResult", !.taskID = taskID,
                                !.elem = elem, !.cond = cond, !.comment = comment]
           err == validateTaskAndElement(taskID, elem)
       IN IF err # "nil"
          THEN Finish(p, call, err, "")
          ELSE Set(p, [call EXCEPT !.pc = "cour_query"])
    /\ UNCHANGED <<tasks, nextTaskID, results, nextResultID, acts, nextActID, files, now,
                   users, nextUserID, inspectorUnits, everOnReview>>

\* CreateOrUpdateResult, step 2: look up the result of (task, element)
CreateOrUpdateResult_Query(p) ==
    /\ calls[p].pc = "cour_query"
    /\ LET found == ResultsOf(calls[p].taskID, calls[p].elem)
       IN IF Cardinality(found) > 1
          THEN Finish(p, calls[p], "database error", "")
          ELSE IF found = {}
               THEN Set(p, [calls[p] EXCEPT !.pc = "cour_save", !.existing = 0])
               ELSE Set(p, [calls[p] EXCEPT !.pc = "cour_save",
                                            !.existing = (CHOOSE r \in found : TRUE).id])
    /\ UNCHANGED <<tasks, nextTaskID, results, nextResultID, acts, nextActID, files, now,
                   users, nextUserID, inspectorUnits, everOnReview>>

\* variant: without ClearComment
UpdateOneKeepComment(existing, cond, comment) ==
    [existing EXCEPT !.condition_status = cond,
                     !.comment = IF comment # NULL THEN comment ELSE @]

\* CreateOrUpdateResult: SetConditionStatus, then SetComment or ClearComment
UpdateOne(existing, cond, comment) ==
    [existing EXCEPT !.condition_status = cond,
                     !.comment = IF comment # NULL THEN comment ELSE NULL]

\* CreateOrUpdateResult, step 2: update the row found, or insert a row
CreateOrUpdateResult_Save(p) ==
    /\ calls[p].pc = "cour_save"
    /\ IF calls[p].existing # 0
       THEN IF \E r \in results : r.id = calls[p].existing
            THEN /\ results' = {IF r.id = calls[p].existing
                                THEN UpdateOne(r, calls[p].cond, calls[p].comment)
                                ELSE r : r \in results}
                 /\ UNCHANGED nextResultID
                 /\ Set(p, [calls[p] EXCEPT !.pc = "cour_fetch"])
            ELSE \* the row is gone: UpdateOne fails
                 /\ UNCHANGED <<results, nextResultID>>
                 /\ Finish(p, calls[p], "database error", "")
       ELSE /\ results' = results \cup
                   {[id |-> nextResultID, task_id |-> calls[p].taskID,
                     checklist_element_id |-> calls[p].elem,
                     condition_status |-> calls[p].cond,
                     comment |-> calls[p].comment]}
            /\ nextResultID' = nextResultID + 1
            /\ Set(p, [calls[p] EXCEPT !.pc = "cour_fetch"])
    /\ UNCHANGED <<tasks, nextTaskID, acts, nextActID, files, now,
                   users, nextUserID, inspectorUnits, everOnReview>>

\* CreateOrUpdateResult, step 3: load the result for the response
CreateOrUpdateResult_Fetch(p) ==
    /\ calls[p].pc = "cour_fetch"
    /\ IF Cardinality(ResultsOf(calls[p].taskID, calls[p].elem)) = 1
       THEN Finish(p, calls[p], "nil", "")
       ELSE Finish(p, calls[p], "failed to fetch result", "")
    /\ UNCHANGED <<tasks, nextTaskID, results, nextResultID, acts, nextActID, files, now,
                   users, nextUserID, inspectorUnits, everOnReview>>

\* variant: the DELETE without the predicate on the element
DeleteResultOfTask(p, taskID, checklistElementID) ==
    /\ calls[p].pc = "idle"
    /\ LET call == [Idle EXCEPT !.op = "DeleteResult", !.taskID = taskID,
                                !.elem = checklistElementID]
           deleted == ResultsOfTask(taskID)
       IN /\ results' = results \ deleted
          /\ IF Cardinality(deleted) = 0
             THEN Finish(p, call, "ErrResultNotFound", "")
             ELSE Finish(p, call, "nil", "")
    /\ UNCHANGED <<tasks, nextTaskID, nextResultID, acts, nextActID, files, now,
                   users, nextUserID, inspectorUnits, everOnReview>>

\* DeleteResult: one DELETE statement
DeleteResult(p, taskID, checklistElementID) ==
    /\ calls[p].pc = "idle"
    /\ LET call == [Idle EXCEPT !.op = "DeleteResult", !.taskID = taskID,
                                !.elem = checklistElementID]
           deleted == ResultsOf(taskID, checklistElementID)
       IN /\ results' = results \ deleted
          /\ IF Cardinality(deleted) = 0
             THEN Finish(p, call, "ErrResultNotFound", "")
             ELSE Finish(p, call, "nil", "")
    /\ UNCHANGED <<tasks, nextTaskID, nextResultID, acts, nextActID, files, now,
                   users, nextUserID, inspectorUnits, everOnReview>>

(***************************************************************************)
(* UserService and InspectorUnitService                                    *)
(***************************************************************************)
UserIDs == 1..MaxUsers

\* the frame of the requests about users
UserFrame == UNCHANGED <<results, nextResultID, acts, nextActID, files, now, everOnReview>>

\* CreateUser: insert the user (the role exists, e-mail and login are new); the
\* reload of the row that follows only fills the response
CreateUser(p) ==
    /\ calls[p].pc = "idle"
    /\ nextUserID <= MaxUsers
    /\ users' = users \cup {nextUserID}
    /\ nextUserID' = nextUserID + 1
    /\ Finish(p, [Idle EXCEPT !.op = "CreateUser", !.userID = nextUserID], "nil", "")
    /\ UserFrame
    /\ UNCHANGED <<tasks, nextTaskID, inspectorUnits>>

\* findUserAndRoleByUserID: Only on users.id
findUserAndRoleByUserID(us, id) == IF id \in us THEN "nil" ELSE "ErrUserNotFound"

\* RetrieveUser
RetrieveUser(p, id) ==
    /\ calls[p].pc = "idle"
    /\ Finish(p, [Idle EXCEPT !.op = "RetrieveUser", !.userID = id],
              findUserAndRoleByUserID(users, id), "")
    /\ UserFrame
    /\ UNCHANGED <<tasks, nextTaskID, users, nextUserID, inspectorUnits>>

\* the rows whose required foreign key refers to the user: tasks.inspector_id
\* and inspector_units.user_id
HasDependencies(id) ==
    \/ \E t \in tasks : t.inspector_id = id
    \/ id \in inspectorUnits

\* variant: no check for self-deletion
DeleteUserNoSelfCheck(p, targetUserID, authenticatedUserID) ==
    /\ calls[p].pc = "idle"
    /\ LET call == [Idle EXCEPT !.op = "DeleteUser", !.userID = targetUserID,
                                !.authID = authenticatedUserID]
       IN IF targetUserID \notin users
          THEN UNCHANGED users /\ Finish(p, call, "ErrUserNotFound", "")
          ELSE IF HasDependencies(targetUserID)
               THEN UNCHANGED users
                    /\ Finish(p, call, "user has active dependencies", "")
               ELSE users' = users \ {targetUserID} /\ Finish(p, call, "nil", "")
    /\ UserFrame
    /\ UNCHANGED <<tasks, nextTaskID, nextUserID, inspectorUnits>>

\* DeleteUser: refuse self-deletion, then one DELETE by id
DeleteUser(p, targetUserID, authenticatedUserID) ==
    /\ calls[p].pc = "idle"
    /\ LET call == [Idle EXCEPT !.op = "DeleteUser", !.userID = targetUserID,
                                !.authID = authenticatedUserID]
       IN IF targetUserID = authenticatedUserID
          THEN UNCHANGED users /\ Finish(p, call, "cannot delete own account", "")
          ELSE IF targetUserID \notin users
               THEN UNCHANGED users /\ Finish(p, call, "ErrUserNotFound", "")
               ELSE IF HasDependencies(targetUserID)
                    THEN UNCHANGED users
                         /\ Finish(p, call, "user has active dependencies", "")
                    ELSE users' = users \ {targetUserID} /\ Finish(p, call, "nil", "")
    /\ UserFrame
    /\ UNCHANGED <<tasks, nextTaskID, nextUserID, inspectorUnits>>

\* AssignInspector: does the user exist (the unit does)
AssignInspector_User(p, inspectorID) ==
    /\ calls[p].pc = "idle"
    /\ LET call == [Idle EXCEPT !.op = "AssignInspector", !.userID = inspectorID]
       IN IF inspectorID \notin users
          THEN Finish(p, call, "ErrUserNotFound", "")
          ELSE Set(p, [call EXCEPT !.pc = "ai_dup"])
    /\ UserFrame
    /\ UNCHANGED <<tasks, nextTaskID, users, nextUserID, inspectorUnits>>

\* AssignInspector: is the user assigned already
AssignInspector_Dup(p) ==
    /\ calls[p].pc = "ai_dup"
    /\ IF calls[p].userID \in inspectorUnits
       THEN Finish(p, calls[p], "ErrInspectorAssignmentExists", "")
       ELSE Set(p, [calls[p] EXCEPT !.pc = "ai_create"])
    /\ UserFrame
    /\ UNCHANGED <<tasks, nextTaskID, users, nextUserID, inspectorUnits>>

\* AssignInspector: insert the assignment; the foreign key user_id holds
AssignInspector_Create(p) ==
    /\ calls[p].pc = "ai_create"
    /\ IF calls[p].userID \in users
       THEN /\ inspectorUnits' = inspectorUnits \cup {calls[p].userID}
            /\ Finish(p, calls[p], "nil", "")
       ELSE /\ UNCHANGED inspectorUnits
            /\ Finish(p, calls[p], "failed to create inspector assignment", "")
    /\ UserFrame
    /\ UNCHANGED <<tasks, nextTaskID, users, nextUserID>>

\* UnassignInspector: one DELETE by (unit, user)
UnassignInspector(p, inspectorID) ==
    /\ calls[p].pc = "idle"
    /\ LET call == [Idle EXCEPT !.op = "UnassignInspector", !.userID = inspectorID]
       IN IF inspectorID \in inspectorUnits
          THEN /\ inspectorUnits' = inspectorUnits \ {inspectorID}
               /\ Finish(p, call, "nil", "")
          ELSE /\ UNCHANGED inspectorUnits
               /\ Finish(p, call, "ErrInspectorAssignmentNotFound", "")
    /\ UserFrame
    /\ UNCHANGED <<tasks, nextTaskID, users, nextUserID>>

(***************************************************************************)
(* The handler sends the response                                          *)
(***************************************************************************)
Return(p) ==
    /\ calls[p].pc = "ret"
    /\ Set(p, Idle)
    /\ UNCHANGED <<tasks, nextTaskID, results, nextResultID, acts, nextActID, files, now,
                   users, nextUserID, inspectorUnits, everOnReview>>

\* the caller whose requests change task statuses in Spec
Reviewer == "c1"

\* the caller whose requests delete results in Spec (a delete is one statement:
\* which caller sends it makes no difference to the tables)
Remover == "c2"

\* the steps of UpdateTaskStatus after its first
UpdateTaskStatus_Steps(p) ==
    \/ UpdateTaskStatus_Update(p)
    \/ CreateOrUpdateAct_Query(p)
    \/ CreateOrUpdateAct_Save(p)
    \/ ApproveAct_Query(p)
    \/ ApproveAct_Update(p)
    \/ ApproveAct_Remove(p)
    \/ ApproveAct_Render(p)
    \/ ApproveAct_SetPath(p)

\* the steps of GeneratePDFForAct after its first
GeneratePDFForAct_Steps(p) ==
    \/ GeneratePDFForAct_Read(p)
    \/ GeneratePDFForAct_Render(p)
    \/ GeneratePDFForAct_SetPath(p)

\* the steps of CreateOrUpdateResult after its first
CreateOrUpdateResult_Steps(p) ==
    \/ CreateOrUpdateResult_Query(p)
    \/ CreateOrUpdateResult_Save(p)
    \/ CreateOrUpdateResult_Fetch(p)

(***************************************************************************)
(* Spec: the result requests of two callers race with one another and with *)
(* the status requests of one of them.                                     *)
(***************************************************************************)
Next ==
    \/ \E c \in TaskChecklists : CreateTask(c)
    \/ \E id \in TaskIDs, s \in StatusSet : UpdateTaskStatus_Load(Reviewer, id, s)
    \/ \E p \in Callers : UpdateTaskStatus_Steps(p)
    \/ \E p \in Callers, id \in TaskIDs, e \in RequestElements, r \in Requests :
          /\ RoomForResult(id, e)
          /\ CreateOrUpdateResult_Validate(p, id, e, r.condition_status, r.comment)
    \/ \E p \in Callers : CreateOrUpdateResult_Steps(p)
    \/ \E id \in TaskIDs, e \in RequestElements : DeleteResult(Remover, id, e)
    \/ \E p \in Callers : Return(p)

Spec == Init /\ [][Next]_vars

(***************************************************************************)
(* SpecDocs: the document requests of two callers race with one another    *)
(* and with the status requests of one of them, whose act queries may      *)
(* fail; no results are recorded.                                          *)
(***************************************************************************)
NextDocs ==
    \/ \E c \in TaskChecklists : CreateTask(c)
    \/ \E id \in TaskIDs, s \in StatusSet : UpdateTaskStatus_Load(Reviewer, id, s)
    \/ \E p \in Callers : UpdateTaskStatus_Steps(p)
    \/ \E p \in Callers : CreateOrUpdateAct_QueryFails(p)
    \/ \E p \in Callers : ApproveAct_QueryFails(p)
    \/ \E p \in Callers : ApproveAct_ResultsFail(p)
    \/ \E p \in Callers : ApproveAct_GenerateFails(p)
    \/ \E p \in Callers : ApproveAct_WriteFails(p)
    \/ \E p \in Callers, id \in TaskIDs : GeneratePDFForAct_Query(p, id)
    \/ \E p \in Callers : GeneratePDFForAct_Steps(p)
    \/ \E p \in Callers : Return(p)

SpecDocs == Init /\ [][NextDocs]_vars

(***************************************************************************)
(* SpecScenario: one caller sends every request, one after the other, for  *)
(* a task with the three elements of checklist 2.                          *)
(***************************************************************************)
NextScenario ==
    \/ CreateTask(ScenarioChecklist)
    \/ \E id \in TaskIDs, s \in StatusSet : UpdateTaskStatus_Load(Reviewer, id, s)
    \/ UpdateTaskStatus_Steps(Reviewer)
    \/ \E id \in TaskIDs, e \in ScenarioElements, r \in Requests :
          CreateOrUpdateResult_Validate(Reviewer, id, e, r.condition_status, r.comment)
    \/ CreateOrUpdateResult_Steps(Reviewer)
    \/ \E id \in TaskIDs : GeneratePDFForAct_Query(Reviewer, id)
    \/ GeneratePDFForAct_Steps(Reviewer)
    \/ Return(Reviewer)

SpecScenario == Init /\ [][NextScenario]_vars

(***************************************************************************)
(* SpecTasks: the status requests of two callers race; no results are      *)
(* recorded.                                                               *)
(***************************************************************************)
NextTasks ==
    \/ \E c \in TaskChecklists : CreateTask(c)
    \/ \E p \in Callers, id \in TaskIDs, s \in StatusSet : UpdateTaskStatus_Load(p, id, s)
    \/ \E p \in Callers, id \in TaskIDs : AcceptTask(p, id)
    \/ \E p \in Callers, id \in TaskIDs : SubmitTask(p, id)
    \/ \E p \in Callers : UpdateTaskStatus_Steps(p)
    \/ \E p \in Callers : Return(p)

SpecTasks == Init /\ [][NextTasks]_vars

(***************************************************************************)
(* SpecUsers: two callers create, retrieve and delete users, assign them   *)
(* to the unit and take them off it; tasks are created for them.           *)
(***************************************************************************)
NextUsers ==
    \/ \E c \in TaskChecklists, i \in UserIDs : CreateTaskFor(c, i)
    \/ \E p \in Callers : CreateUser(p)
    \/ \E p \in Callers, id \in UserIDs : RetrieveUser(p, id)
    \/ \E p \in Callers, t \in UserIDs, a \in UserIDs : DeleteUser(p, t, a)
    \/ \E p \in Callers, id \in UserIDs : AssignInspector_User(p, id)
    \/ \E p \in Callers : AssignInspector_Dup(p)
    \/ \E p \in Callers : AssignInspector_Create(p)
    \/ \E p \in Callers, id \in UserIDs : UnassignInspector(p, id)
    \/ \E p \in Callers : Return(p)

SpecUsers == Init /\ [][NextUsers]_vars

\* no result has been recorded: in SpecActs the inspector records one
NoResultYet == nextResultID = 1

(***************************************************************************)
(* SpecActs: the status requests of the coordinator race with the submit,  *)
(* result, delete and document requests of the inspector.                  *)
(***************************************************************************)
NextActs ==
    \/ \E c \in TaskChecklists : CreateTask(c)
    \/ \E id \in TaskIDs, s \in StatusSet : UpdateTaskStatus_Load(Reviewer, id, s)
    \/ \E id \in TaskIDs : SubmitTask(Remover, id)
    \/ \E p \in Callers : UpdateTaskStatus_Steps(p)
    \/ \E id \in TaskIDs : GeneratePDFForAct_Query(Remover, id)
    \/ GeneratePDFForAct_Steps(Remover)
    \/ \E id \in TaskIDs :
          /\ NoResultYet
          /\ CreateOrUpdateResult_Validate(Remover, id, 1, ConditionStatuses[1], NULL)
    \/ CreateOrUpdateResult_Steps(Remover)
    \/ \E id \in TaskIDs : DeleteResult(Remover, id, 1)
    \/ \E p \in Callers : Return(p)

SpecActs == Init /\ [][NextActs]_vars

\* status requests racing from every caller, next to one inspector's results
NextRevision ==
    \/ \E c \in TaskChecklists : CreateTask(c)
    \/ \E p \in Callers, id \in TaskIDs, s \in StatusSet : UpdateTaskStatus_Load(p, id, s)
    \/ \E p \in Callers : UpdateTaskStatus_Steps(p)
    \/ \E id \in TaskIDs :
          /\ NoResultYet
          /\ CreateOrUpdateResult_Validate(Remover, id, 1, ConditionStatuses[1], NULL)
    \/ CreateOrUpdateResult_Steps(Remover)
    \/ \E id \in TaskIDs : DeleteResult(Remover, id, 1)
    \/ \E p \in Callers : Return(p)

SpecRevision == Init /\ [][NextRevision]_vars

\* the status requests of one caller, one after the other: a walk along the
\* table of allowed transitions
NextFlow ==
    \/ \E c \in TaskChecklists : CreateTask(c)
    \/ \E id \in TaskIDs, s \in StatusSet : UpdateTaskStatus_Load(Reviewer, id, s)
    \/ UpdateTaskStatus_Steps(Reviewer)
    \/ Return(Reviewer)

SpecFlow == Init /\ [][NextFlow]_vars

\* a request that has been taken up runs to its end and returns: the handler
\* is a goroutine with no blocking wait; nothing makes a client send a request
SpecFlowFair ==
    /\ SpecFlow
    /\ WF_vars(UpdateTaskStatus_Steps(Reviewer))
    /\ WF_vars(Return(Reviewer))

(***************************************************************************)
(* Properties                                                              *)
(***************************************************************************)
\* caller p takes the step
Moved(p) == calls'[p] # calls[p]

\* the status of task id in the table ts
StatusIn(ts, id) == (CHOOSE t \in ts : t.id = id).status

\* the steps of the side effect of UpdateTaskStatus
SideEffectPcs == {"coua_query", "coua_save", "aa_query", "aa_update",
                  "aa_remove", "aa_render", "aa_setpath"}

\* the transitions of section 4.1
LegalPairs ==
    {<<"New", "Pending">>, <<"New", "Canceled">>,
     <<"Pending", "InProgress">>, <<"Pending", "Canceled">>,
     <<"InProgress", "OnReview">>, <<"InProgress", "Canceled">>,
     <<"OnReview", "Approved">>, <<"OnReview", "ForRevision">>,
     <<"ForRevision", "OnReview">>, <<"ForRevision", "Canceled">>}

\* C1: UpdateTaskStatus on an existing task passes its guard exactly for the
\* legal pairs (current status, target): every other pair returns
\* ErrInvalidStatusTransition and leaves the tasks as they are; a call that
\* passed the guard writes the target status and returns nil.
C1_TransitionTable ==
    [][\A p \in Callers :
        /\ (calls[p].pc = "idle" /\ calls'[p].op = "UpdateTaskStatus"
               /\ TaskByID(calls'[p].taskID) # {})
           => /\ tasks' = tasks
              /\ IF <<StatusIn(tasks, calls'[p].taskID), calls'[p].newStatus>> \in LegalPairs
                 THEN calls'[p].pc = "uts_update"
                 ELSE calls'[p].pc = "ret"
                      /\ calls'[p].ret = "ErrInvalidStatusTransition"
        /\ (calls[p].pc = "uts_update" /\ Moved(p))
           => StatusIn(tasks', calls[p].taskID) = calls[p].newStatus
        /\ (calls[p].op = "UpdateTaskStatus" /\ calls[p].pc # "ret" /\ calls'[p].pc = "ret")
           => calls'[p].ret = "nil"
      ]_vars

\* C1, witness: a task that went through legal transitions to ForRevision and a
\* request for the target New rejected
C1_Witness ==
    \E p \in Callers :
        /\ calls[p].pc = "ret" /\ calls[p].op = "UpdateTaskStatus"
        /\ calls[p].newStatus = "New"
        /\ calls[p].ret = "ErrInvalidStatusTransition"
        /\ \E t \in tasks : t.id = calls[p].taskID /\ t.status = "ForRevision"

\* C2: a task whose status is Approved or Canceled keeps that status in every
\* step of every caller.
C2_TerminalForever ==
    [][\A t \in tasks :
          t.status \in {"Approved", "Canceled"}
          => \E u \in tasks' : u.id = t.id /\ u.status = t.status]_vars

\* C3: the status is written in a step of its own, before the first step of the
\* side effect; no step of the side effect changes a task; and however the side
\* effect ends, UpdateTaskStatus returns nil.
C3_SideEffectSwallowed ==
    [][\A p \in Callers :
        /\ (calls[p].pc = "uts_update" /\ Moved(p))
           => /\ acts' = acts /\ files' = files
              /\ StatusIn(tasks', calls[p].taskID) = calls[p].newStatus
              /\ calls[p].newStatus \in {"OnReview", "Approved"}
                 => calls'[p].pc \in {"coua_query", "aa_query"}
        /\ (calls'[p].pc \in {"coua_query", "aa_query"} /\ Moved(p))
           => calls[p].pc = "uts_update"
        /\ (calls[p].pc \in SideEffectPcs /\ Moved(p))
           => /\ tasks' = tasks
              /\ calls'[p].pc = "ret" => calls'[p].ret = "nil"
      ]_vars

\* C3, witness: the side effect failed, the call returned nil and the task has
\* the status requested
C3_Witness ==
    \E p \in Callers :
        /\ calls[p].pc = "ret" /\ calls[p].op = "UpdateTaskStatus"
        /\ calls[p].log # "" /\ calls[p].ret = "nil"
        /\ calls[p].newStatus \in {"OnReview", "Approved"}
        /\ \E t \in tasks : t.id = calls[p].taskID /\ t.status = calls[p].newStatus

\* C4: a task never has two acts; CreateOrUpdateAct creates one act, drafted,
\* when the task has none, and when it found an act it sets the conclusion of
\* that act and adds no row.
C4_OneActPerTask ==
    [][/\ \A id \in TaskIDs : Cardinality({a \in acts' : a.task_id = id}) <= 1
       /\ \A p \in Callers :
            (calls[p].pc = "coua_save" /\ Moved(p))
            => IF calls[p].act.id # 0
               THEN /\ {a.id : a \in acts'} = {a.id : a \in acts}
                    /\ \A a \in acts' : a.id = calls[p].act.id
                                        => a.conclusion = DraftConclusion
                    /\ \A a \in acts' : a.id # calls[p].act.id => a \in acts
               ELSE IF ActsOfTask(calls[p].taskID) = {}
                    THEN \E a \in acts' :
                            /\ acts' = acts \cup {a} /\ a \notin acts
                            /\ a.task_id = calls[p].taskID
                            /\ a.status = ActStatusDrafted
                    ELSE acts' = acts
      ]_vars

\* C4, witness: the task is back in OnReview after ForRevision (both calls have
\* just returned) and has its one act, drafted
C4_Witness ==
    \E p, q \in Callers :
        /\ calls[p].pc = "ret" /\ calls[p].newStatus = "OnReview"
        /\ calls[p].ret = "nil" /\ calls[p].log = ""
        /\ calls[q].pc = "ret" /\ calls[q].newStatus = "ForRevision"
        /\ calls[q].ret = "nil"
        /\ \E t \in tasks : t.id = calls[p].taskID /\ t.status = "OnReview"
        /\ Cardinality(ActsOfTask(calls[p].taskID)) = 1
        /\ \A a \in ActsOfTask(calls[p].taskID) :
              a.status = ActStatusDrafted /\ a.conclusion = DraftConclusion

\* C5: ApproveAct goes on to its update whenever the task has an act; the update
\* leaves the act approved, with a non-zero approval timestamp and the approval
\* statement as conclusion; the later steps of the call keep these fields.
C5_ApproveFields ==
    [][\A p \in Callers :
        /\ (calls[p].pc = "aa_query" /\ Moved(p)
               /\ Cardinality(ActsOfTask(calls[p].taskID)) = 1)
           => calls'[p].pc = "aa_update"
        /\ (calls[p].pc = "aa_update" /\ Moved(p))
           => \A a \in acts' :
                 a.id = calls[p].act.id
                 => /\ a.status = ActStatusApproved
                    /\ a.approved_at # 0
                    /\ a.conclusion = ApprovalConclusion
        /\ (calls[p].pc \in {"aa_remove", "aa_render", "aa_setpath"} /\ Moved(p))
           => \A a \in acts : \E b \in acts' :
                 /\ b.id = a.id /\ b.status = a.status
                 /\ b.approved_at = a.approved_at /\ b.conclusion = a.conclusion
      ]_vars

\* C5, witness: OnReview -> Approved has returned and the act is approved
C5_Witness ==
    \E p \in Callers :
        /\ calls[p].pc = "ret" /\ calls[p].op = "UpdateTaskStatus"
        /\ calls[p].newStatus = "Approved" /\ calls[p].ret = "nil" /\ calls[p].log = ""
        /\ \E t \in tasks : t.id = calls[p].taskID /\ t.status = "Approved"
        /\ \E a \in ActsOfTask(calls[p].taskID) :
              /\ a.status = ActStatusApproved /\ a.approved_at # 0
              /\ a.conclusion = ApprovalConclusion

\* C6: an approval timestamp that is set never changes.
C6_ApprovedAtSetOnce ==
    [][\A a \in acts :
          a.approved_at # 0
          => \A b \in acts' : b.id = a.id => b.approved_at = a.approved_at]_vars

\* the elements of the checklist of task id
ElementsOfTask(id) ==
    {e.id : e \in {x \in ChecklistElements :
                      \E t \in TaskByID(id) : x.checklist_id = t.checklist_id}}

\* C7: the first step of CreateOrUpdateResult changes no table and fails with
\* ErrTaskNotFound for a missing task, else with ErrTaskNotInProgress for a task
\* not in InProgress, else with ErrChecklistElementInvalid for an element that is
\* not of the checklist of the task; only otherwise does the call go on, and
\* only a call that went on returns nil.
C7_ValidationOrder ==
    [][\A p \in Callers :
        /\ (calls[p].pc = "idle" /\ calls'[p].op = "CreateOrUpdateResult")
           => /\ results' = results /\ nextResultID' = nextResultID
              /\ IF TaskByID(calls'[p].taskID) = {}
                 THEN calls'[p].pc = "ret" /\ calls'[p].ret = "ErrTaskNotFound"
                 ELSE IF StatusIn(tasks, calls'[p].taskID) # "InProgress"
                      THEN calls'[p].pc = "ret" /\ calls'[p].ret = "ErrTaskNotInProgress"
                      ELSE IF calls'[p].elem \notin ElementsOfTask(calls'[p].taskID)
                           THEN calls'[p].pc = "ret"
                                /\ calls'[p].ret = "ErrChecklistElementInvalid"
                           ELSE calls'[p].pc = "cour_query"
        /\ (calls'[p].op = "CreateOrUpdateResult" /\ calls'[p].pc = "ret"
               /\ calls'[p].ret = "nil" /\ Moved(p))
           => calls[p].pc = "cour_fetch"
      ]_vars

\* C7, witness: an element of another checklist and a task that is not in
\* InProgress: the call failed with ErrTaskNotInProgress
C7_Witness ==
    \E p \in Callers :
        /\ calls[p].pc = "ret" /\ calls[p].op = "CreateOrUpdateResult"
        /\ calls[p].ret = "ErrTaskNotInProgress"
        /\ calls[p].elem \notin ElementsOfTask(calls[p].taskID)
        /\ TaskByID(calls[p].taskID) # {}

C9_OneResultPerElement ==
    \A id \in TaskIDs, e \in ElementIDs : Cardinality(ResultsOf(id, e)) <= 1

\* C10: no step changes the results of a task that has left InProgress.
C10_ResultsReadOnly ==
    [][\A t \in tasks :
          t.status \in {"OnReview", "ForRevision", "Approved", "Canceled"}
          => {r \in results' : r.task_id = t.id} = ResultsOfTask(t.id)]_vars

\* C11: DeleteResult removes the rows of its (task, element) pair and no other
\* row, and changes no task, act or file; it returns nil when it removed a row
\* and ErrResultNotFound, with nothing changed, when the pair had none.
C11_DeleteFrame ==
    [][\A p \in Callers :
        (calls[p].pc = "idle" /\ calls'[p].op = "DeleteResult")
        => /\ results' = {r \in results :
                            ~(r.task_id = calls'[p].taskID
                              /\ r.checklist_element_id = calls'[p].elem)}
           /\ tasks' = tasks /\ acts' = acts /\ files' = files
           /\ calls'[p].pc = "ret"
           /\ IF ResultsOf(calls'[p].taskID, calls'[p].elem) = {}
              THEN calls'[p].ret = "ErrResultNotFound" /\ results' = results
              ELSE calls'[p].ret = "nil" /\ results' # results
      ]_vars

\* C11, witness: a result deleted while the result of the other element stays
C11_Witness ==
    \E p \in Callers :
        /\ calls[p].pc = "ret" /\ calls[p].op = "DeleteResult" /\ calls[p].ret = "nil"
        /\ ResultsOf(calls[p].taskID, calls[p].elem) = {}
        /\ ResultsOfTask(calls[p].taskID) # {}
        /\ acts # {}

\* C12: GeneratePDFForAct on an act without document_path renders: it writes the
\* document under a file name, stores that name in document_path of the act,
\* changing no other field, and returns the document written.  On an act with
\* document_path whose file can be read it returns the bytes of that file and
\* changes no file, no act and does not read the clock.
C12_RenderThenCache ==
    [][\A p \in Callers :
        /\ (calls[p].pc = "idle" /\ calls'[p].op = "GeneratePDFForAct"
               /\ Cardinality(ActsOfTask(calls'[p].taskID)) = 1)
           => /\ calls'[p].pc =
                    IF \A a \in ActsOfTask(calls'[p].taskID) : a.document_path = NoPath
                    THEN "gp_render" ELSE "gp_read"
              /\ acts' = acts /\ files' = files
        /\ (calls[p].pc = "gp_render" /\ Moved(p))
           => /\ calls'[p].pc = "gp_setpath"
              /\ calls'[p].pdfData # NoData
              /\ [path |-> calls'[p].filename, data |-> calls'[p].pdfData] \in files'
              /\ acts' = acts
        /\ (calls[p].pc = "gp_setpath" /\ Moved(p))
           => /\ calls'[p].pc = "ret" /\ calls'[p].ret = "nil"
              /\ calls'[p].pdfData = calls[p].pdfData
              /\ files' = files
              /\ acts' = {IF a.id = calls[p].act.id
                          THEN [a EXCEPT !.document_path = calls[p].filename]
                          ELSE a : a \in acts}
        /\ (calls[p].pc = "gp_read" /\ Moved(p)
               /\ \E f \in files : f.path = calls[p].act.document_path)
           => /\ calls'[p].pc = "ret" /\ calls'[p].ret = "nil"
              /\ [path |-> calls[p].act.document_path, data |-> calls'[p].pdfData] \in files
              /\ files' = files /\ acts' = acts /\ now' = now
      ]_vars

\* C12, witness: the first call has returned the document it rendered and
\* stored; the second call has loaded the act with that document_path, and the
\* file holds the bytes the first call returned
C12_Witness ==
    \E p, q \in Callers :
        /\ calls[q].pc = "ret" /\ calls[q].op = "GeneratePDFForAct"
        /\ calls[q].ret = "nil" /\ calls[q].pdfData # NoData
        /\ calls[p].pc = "gp_read" /\ calls[p].taskID = calls[q].taskID
        /\ \E a \in ActsOfTask(calls[p].taskID) :
              /\ a.document_path # NoPath
              /\ a.document_path = calls[p].act.document_path
              /\ [path |-> a.document_path, data |-> calls[q].pdfData] \in files

\* C13: a GeneratePDFForAct request for a task in OnReview or Approved, with no
\* status request in flight, does not fail with ErrActNotFound and works on an
\* act of the task, an approved one when the task is Approved (the request
\* makes up for a side effect of the transition that failed).
C13_LazyRecovery ==
    [][\A p \in Callers :
        (/\ calls[p].pc = "idle" /\ calls'[p].op = "GeneratePDFForAct"
         /\ \A q \in Callers : calls[q].op # "UpdateTaskStatus"
         /\ \E t \in TaskByID(calls'[p].taskID) : t.status \in {"OnReview", "Approved"})
        => /\ calls'[p].ret # "ErrActNotFound"
           /\ calls'[p].act.id # 0
           /\ StatusIn(tasks, calls'[p].taskID) = "Approved"
              => calls'[p].act.status = ActStatusApproved
      ]_vars

\* C14: a document that GeneratePDFForAct returns shows the status, approval
\* timestamp and conclusion of the act as the call loaded it, never those of an
\* earlier state of the act.
C14_DocumentFresh ==
    [][\A p \in Callers :
        (/\ calls[p].op = "GeneratePDFForAct" /\ calls[p].pc # "ret"
         /\ calls'[p].pc = "ret" /\ calls'[p].ret = "nil")
        => /\ calls'[p].pdfData.status = calls[p].act.status
           /\ calls'[p].pdfData.approved_at = calls[p].act.approved_at
           /\ calls'[p].pdfData.conclusion = calls[p].act.conclusion
      ]_vars

\* order_index of a checklist element
OrderIndex(e) == (CHOOSE x \in ChecklistElements : x.id = e).order_index

\* C15: a document rendered has one row per result of the task, and its rows
\* are in the order of order_index of their checklist elements.
C15_RowsInChecklistOrder ==
    [][\A p \in Callers :
        (calls[p].pc \in {"aa_render", "gp_render"} /\ Moved(p))
        => \E f \in files' :
              /\ f.path = calls'[p].filename
              /\ Len(f.data.rows) = Cardinality(ResultsOfTask(calls[p].taskID))
              /\ \A i, j \in 1..Len(f.data.rows) :
                    i < j => OrderIndex(f.data.rows[i][1]) <= OrderIndex(f.data.rows[j][1])
      ]_vars

\* the transitions of the scenario of C16
ScenarioPairs ==
    {<<"New", "Pending">>, <<"Pending", "InProgress">>, <<"InProgress", "OnReview">>,
     <<"OnReview", "ForRevision">>, <<"ForRevision", "OnReview">>,
     <<"OnReview", "Approved">>}

\* C16, the steps before the last: every transition of the scenario is accepted
\* and its side effect succeeds; a result for an element of the checklist of a
\* task in InProgress is accepted; the task has at most one act, drafted with
\* the draft conclusion after OnReview, its conclusion refreshed by the second
\* OnReview, approved with a document rendered from the approved act after
\* Approved.
C16_ScenarioAccepted ==
    LET p == Reviewer
    IN /\ (calls[p].pc = "idle" /\ calls'[p].op = "UpdateTaskStatus"
              /\ TaskByID(calls'[p].taskID) # {}
              /\ <<StatusIn(tasks, calls'[p].taskID), calls'[p].newStatus>> \in ScenarioPairs)
          => calls'[p].pc = "uts_update"
       /\ (calls[p].op = "UpdateTaskStatus" /\ calls[p].pc # "ret" /\ calls'[p].pc = "ret")
          => calls'[p].ret = "nil" /\ calls'[p].log = ""
       /\ (calls[p].pc = "idle" /\ calls'[p].op = "CreateOrUpdateResult"
              /\ \E t \in TaskByID(calls'[p].taskID) : t.status = "InProgress"
              /\ calls'[p].elem \in ElementsOfTask(calls'[p].taskID))
          => calls'[p].pc = "cour_query"
       /\ (calls[p].pc = "cour_fetch" /\ Moved(p)) => calls'[p].ret = "nil"
       /\ \A id \in TaskIDs : Cardinality({a \in acts' : a.task_id = id}) <= 1
       /\ (calls[p].pc = "coua_save" /\ Moved(p))
          => \E a \in acts' :
                /\ a.task_id = calls[p].taskID
                /\ a.status = ActStatusDrafted /\ a.conclusion = DraftConclusion
       /\ (calls[p].pc = "aa_setpath" /\ Moved(p))
          => \E a \in acts' :
                /\ a.task_id = calls[p].taskID
                /\ a.status = ActStatusApproved /\ a.approved_at # 0
                /\ \E f \in files' :
                      /\ f.path = a.document_path
                      /\ f.data.status = ActStatusApproved
                      /\ f.data.approved_at = a.approved_at

\* C16, the last step: GeneratePDFForAct for the approved task with one result
\* for each of its three checklist elements returns a document with exactly
\* three rows, in the order of order_index.
C16_ThreeRowsInOrder ==
    LET p == Reviewer
    IN (/\ calls[p].op = "GeneratePDFForAct" /\ calls[p].pc # "ret" /\ calls'[p].pc = "ret"
        /\ \E t \in TaskByID(calls[p].taskID) : t.status = "Approved"
        /\ \A e \in ScenarioElements : Cardinality(ResultsOf(calls[p].taskID, e)) = 1)
       => /\ calls'[p].ret = "nil"
          /\ Len(calls'[p].pdfData.rows) = 3
          /\ \A i, j \in 1..3 :
                i < j => OrderIndex(calls'[p].pdfData.rows[i][1])
                            < OrderIndex(calls'[p].pdfData.rows[j][1])

\* C16: the scenario create, Pending, InProgress, a result for each of the
\* three checklist elements, OnReview, ForRevision, OnReview, Approved is
\* accepted at every step, leaves one act, drafted, refreshed and then approved
\* with its document rendered again, and a GeneratePDFForAct that follows
\* returns a document with exactly three rows in checklist order.
C16_EndToEnd == [][C16_ScenarioAccepted /\ C16_ThreeRowsInOrder]_vars

\* the first step of a call of UpdateTaskStatus by handler h on an existing task
HandlerLoads(p, h) ==
    /\ calls[p].pc = "idle" /\ calls'[p].op = "UpdateTaskStatus"
    /\ calls'[p].handler = h
    /\ TaskByID(calls'[p].taskID) # {}

\* the handler of caller p passes the guard exactly from the statuses `from`,
\* with the target `target`; from any other status it answers 400 for
\* ErrInvalidStatusTransition and the tasks stay as they are
HandlerGuard(p, h, from, target) ==
    HandlerLoads(p, h)
       => /\ tasks' = tasks
          /\ calls'[p].newStatus = target
          /\ IF StatusIn(tasks, calls'[p].taskID) \in from
             THEN calls'[p].pc = "uts_update"
             ELSE /\ calls'[p].pc = "ret"
                  /\ calls'[p].ret = "ErrInvalidStatusTransition"
                  /\ TaskHandlerResponse(calls'[p].ret) = 400

\* a call of AcceptTask or SubmitTask past the guard writes its target and
\* answers 200
HandlerSucceeds(p) ==
    calls[p].handler \in {"AcceptTask", "SubmitTask"}
       => /\ (calls[p].pc = "uts_update" /\ Moved(p))
               => StatusIn(tasks', calls[p].taskID) = calls[p].newStatus
          /\ (calls[p].pc \notin {"idle", "ret"} /\ calls'[p].pc = "ret")
               => TaskHandlerResponse(calls'[p].ret) = 200

Deletes(p) == calls[p].pc = "idle" /\ calls'[p].op = "DeleteUser"

\* DeleteUser with the caller as its target fails and changes no user
SelfDeleteRefused(p) ==
    (Deletes(p) /\ calls'[p].userID = calls'[p].authID)
       => /\ calls'[p].ret # "nil"
          /\ users' = users

\* DeleteUser has succeeded and the target cannot be retrieved
Deleted(p) ==
    /\ calls'[p].ret = "nil"
    /\ findUserAndRoleByUserID(users', calls'[p].userID) = "ErrUserNotFound"

\* an id that was deleted is not handed out again
DeletedForGood == \A id \in UserIDs : (id < nextUserID /\ id \notin users) => id \notin users'

\* C18 as stated: DeleteUser fails whenever the target is the authenticated
\* caller, and the caller's account is still there afterwards; DeleteUser on a
\* different, existing user succeeds and that user can no longer be retrieved.
C18_DeleteUser ==
    [][/\ \A p \in Callers :
            /\ SelfDeleteRefused(p)
            /\ (Deletes(p) /\ calls'[p].userID # calls'[p].authID
                    /\ calls'[p].userID \in users)
                 => Deleted(p)
       /\ DeletedForGood
      ]_vars

\* C18 as amended: DeleteUser on a different, existing user that no task and
\* no unit assignment refers to succeeds and that user can no longer be
\* retrieved; the rest as stated.
C18_DeleteUserWithoutDependencies ==
    [][/\ \A p \in Callers :
            /\ SelfDeleteRefused(p)
            /\ (Deletes(p) /\ calls'[p].userID # calls'[p].authID
                    /\ calls'[p].userID \in users
                    /\ ~HasDependencies(calls'[p].userID))
                 => Deleted(p)
       /\ DeletedForGood
      ]_vars

\* C18, witness: the admin has deleted another user, and a request of the
\* admin to delete the admin's own account has been refused
C18_Witness ==
    \E p, q \in Callers :
        /\ calls[p].pc = "ret" /\ calls[p].op = "DeleteUser"
        /\ calls[p].authID = Admin /\ calls[p].userID # Admin
        /\ calls[p].ret = "nil" /\ calls[p].userID \notin users
        /\ calls[q].pc = "ret" /\ calls[q].op = "DeleteUser"
        /\ calls[q].authID = Admin /\ calls[q].userID = Admin
        /\ calls[q].ret = "cannot delete own account" /\ Admin \in users

\* the targets without a side effect
PlainTargets == {"Pending", "InProgress", "ForRevision", "Canceled"}

\* C19: after every step, every act belongs to a task whose status has been
\* OnReview, so a task canceled without a review has none; and no step of an
\* UpdateTaskStatus with the target Pending, InProgress, ForRevision or Canceled
\* creates or changes an act.
C19_ActOnlyAfterReview ==
    [][/\ \A a \in acts' : a.task_id \in everOnReview'
       /\ \A t \in tasks' :
             (t.status = "Canceled" /\ t.id \notin everOnReview') => ActsOfTask(t.id)' = {}
       /\ \A p \in Callers :
             (Moved(p) /\ calls'[p].op = "UpdateTaskStatus"
                 /\ calls'[p].newStatus \in PlainTargets)
             => /\ acts' = acts
                /\ calls'[p].pc \in {"uts_update", "ret"}
      ]_vars

\* C19, witness: one task was canceled from Pending and has no act; before
\* that, nothing was reviewed
C19_Witness ==
    \E p \in Callers :
        /\ calls[p].pc = "ret" /\ calls[p].op = "UpdateTaskStatus"
        /\ calls[p].newStatus = "Canceled" /\ calls[p].ret = "nil"
        /\ \E t \in tasks : t.id = calls[p].taskID /\ t.status = "Canceled"
        /\ calls[p].taskID \notin everOnReview
        /\ ActsOfTask(calls[p].taskID) = {}

\* C20: the step of CreateOrUpdateAct that found an act changes nothing of
\* that act but its conclusion (status, creation and approval timestamps and
\* document path stay), no other act, no file and not the clock, and the call
\* returns; no step of an UpdateTaskStatus with the target OnReview renders or
\* writes a document.
C20_RefreshConclusionOnly ==
    [][\A p \in Callers :
          /\ (calls[p].pc = "coua_save" /\ calls[p].act.id # 0 /\ Moved(p))
             => /\ \A a \in acts :
                     IF a.id = calls[p].act.id
                     THEN \E b \in acts' :
                             /\ b.id = a.id /\ b.task_id = a.task_id
                             /\ b.status = a.status
                             /\ b.created_at = a.created_at
                             /\ b.approved_at = a.approved_at
                             /\ b.document_path = a.document_path
                     ELSE a \in acts'
                /\ Cardinality(acts') = Cardinality(acts)
                /\ files' = files /\ now' = now
                /\ calls'[p].pc = "ret"
          /\ (calls[p].op = "UpdateTaskStatus" /\ calls[p].newStatus = "OnReview"
                 /\ Moved(p))
             => /\ files' = files
                /\ calls'[p].pc \in {"coua_query", "coua_save", "ret", "idle"}
      ]_vars

\* C20, witness: an approved act with its approval timestamp, its document
\* path and the file behind it has got the conclusion of a draft
C20_Witness ==
    \E a \in acts :
        /\ a.status = ActStatusApproved /\ a.approved_at # 0
        /\ a.document_path # NoPath
        /\ \E f \in files : f.path = a.document_path
        /\ a.conclusion = DraftConclusion

\* what ApproveAct logs when the document cannot be made again
RegenerationFailures == {"failed to fetch results for approved PDF",
                         "failed to generate approved PDF",
                         "failed to save approved PDF"}

\* C21: a step of ApproveAct that fails to load the results, to render or to
\* write the document, after the update of the act, ends the call with nil;
\* it changes no act (the act stays approved, with the approval timestamp and
\* conclusion the call wrote, and document_path is not updated), no task and
\* no result, and no file other than the one that was being written.
C21_ApprovalSurvivesFailure ==
    [][\A p \in Callers :
          (calls[p].pc = "aa_render" /\ calls'[p].pc = "ret")
          => /\ calls'[p].ret = "nil"
             /\ calls'[p].log \in RegenerationFailures
             /\ acts' = acts /\ tasks' = tasks /\ results' = results
             /\ \A f \in files' : f \in files \/ f.path = Filename(calls[p].act, now')
             /\ \A f \in files : f \in files' \/ f.path = Filename(calls[p].act, now')
             /\ \E a \in acts' :
                   /\ a.id = calls[p].act.id
                   /\ a.status = ActStatusApproved
                   /\ a.approved_at = calls[p].act.approved_at /\ a.approved_at # 0
                   /\ a.conclusion = ApprovalConclusion
      ]_vars

\* C21, witness: the write of the approved document failed; the call returned
\* nil, the task is Approved, its act is approved and document_path still
\* names the draft, whose file is gone
C21_Witness ==
    \E p \in Callers :
        /\ calls[p].pc = "ret" /\ calls[p].op = "UpdateTaskStatus"
        /\ calls[p].ret = "nil" /\ calls[p].log = "failed to save approved PDF"
        /\ \E t \in tasks : t.id = calls[p].taskID /\ t.status = "Approved"
        /\ \E a \in ActsOfTask(calls[p].taskID) :
              /\ a.status = ActStatusApproved /\ a.approved_at # 0
              /\ a.conclusion = ApprovalConclusion
              /\ a.document_path # NoPath
              /\ ~\E f \in files : f.path = a.document_path

\* another caller has passed the guard for task id and not yet written
PendingWrite(p, id) ==
    \E q \in Callers \ {p} : calls[q].pc = "uts_update" /\ calls[q].taskID = id

\* C22: a request that arrives while another request for the same task is
\* between its guard and its write is judged on the status stored, the one the
\* other request read, and passes when the pair is legal; each write puts its
\* target into the task whatever the status has become, so that of two such
\* requests the later write stays.
C22_NotSerialized ==
    [][\A p \in Callers :
          /\ (calls[p].pc = "idle" /\ calls'[p].op = "UpdateTaskStatus"
                 /\ TaskByID(calls'[p].taskID) # {}
                 /\ PendingWrite(p, calls'[p].taskID)
                 /\ <<StatusIn(tasks, calls'[p].taskID), calls'[p].newStatus>> \in LegalPairs)
             => /\ calls'[p].pc = "uts_update"
                /\ \A q \in Callers \ {p} : calls'[q] = calls[q]
          /\ (calls[p].pc = "uts_update" /\ Moved(p))
             => /\ StatusIn(tasks', calls[p].taskID) = calls[p].newStatus
                /\ calls'[p].pc # "ret" \/ calls'[p].ret = "nil"
      ]_vars

\* C22, witness: the requests for Canceled and for Pending have both returned
\* nil and the task is Pending: both read New, and Pending was written last
C22_Witness ==
    \E p, q \in Callers :
        /\ calls[p].pc = "ret" /\ calls[p].op = "UpdateTaskStatus"
        /\ calls[p].newStatus = "Pending" /\ calls[p].ret = "nil"
        /\ calls[q].pc = "ret" /\ calls[q].op = "UpdateTaskStatus"
        /\ calls[q].newStatus = "Canceled" /\ calls[q].ret = "nil"
        /\ calls[p].taskID = calls[q].taskID
        /\ \E t \in tasks : t.id = calls[p].taskID /\ t.status = "Pending"

\* C23: every step of CreateOrUpdateResult that inserts or updates a row is
\* taken while the status stored for its task is InProgress.
C23_UpsertOnlyInProgress ==
    [][\A p \in Callers :
          (calls[p].pc = "cour_save" /\ results' # results)
          => StatusIn(tasks, calls[p].taskID) = "InProgress"
      ]_vars

\* C24: no step removes an act or moves it to another task; an act that is
\* approved stays approved; an act that appears is drafted.
C24_ActStatusForward ==
    [][/\ \A a \in acts :
            \E b \in acts' :
               /\ b.id = a.id /\ b.task_id = a.task_id
               /\ a.status = ActStatusApproved => b.status = ActStatusApproved
               /\ b.status \in {ActStatusDrafted, ActStatusApproved}
       /\ \A b \in acts' :
            (\A a \in acts : a.id # b.id) => b.status = ActStatusDrafted
      ]_vars

\* C24, witness: CreateOrUpdateAct has run on an approved act (the act has the
\* conclusion of a draft), after which the act's document was served, and the
\* act is approved still
C24_Witness ==
    /\ calls[Remover].pc = "ret" /\ calls[Remover].op = "GeneratePDFForAct"
    /\ calls[Remover].ret = "nil"
    /\ calls[Remover].pdfData.conclusion = DraftConclusion
    /\ calls[Remover].pdfData.status = ActStatusApproved
    /\ \E a \in ActsOfTask(calls[Remover].taskID) :
          a.status = ActStatusApproved /\ a.conclusion = DraftConclusion

\* C25: the file name a render writes under is the name of no file in the
\* storage directory and the document_path of no act: no render writes over a
\* document rendered before.
C25_FreshFilename ==
    [][\A p \in Callers :
          (calls[p].pc \in {"gp_render", "aa_render"}
              /\ calls'[p].pc \in {"gp_setpath", "aa_setpath"})
          => /\ ~\E f \in files : f.path = calls'[p].filename
             /\ ~\E a \in acts : a.document_path = calls'[p].filename
      ]_vars

\* C26: an act is approved only while the status of its task is Approved.
C26_ApprovedActApprovedTask ==
    \A a \in acts :
        a.status = ActStatusApproved
        => \E t \in tasks : t.id = a.task_id /\ t.status = "Approved"

\* C27: a result request made for a task that has been OnReview, and so has
\* left InProgress, is refused with ErrTaskNotInProgress.
C27_NoUpsertAfterInProgress ==
    [][\A p \in Callers :
          (/\ calls[p].pc = "idle"
           /\ calls'[p].op = "CreateOrUpdateResult"
           /\ calls'[p].taskID \in everOnReview)
          => (calls'[p].pc = "ret" /\ calls'[p].ret = "ErrTaskNotInProgress")
      ]_vars

\* the graph of allowedTransitions
Successors(s) == {t \in StatusSet : isTransitionAllowed(s, t)}

RECURSIVE ReachableIn(_, _)
ReachableIn(s, n) ==
    IF n = 0 THEN {s}
    ELSE LET r == ReachableIn(s, n - 1)
         IN r \cup UNION {Successors(x) : x \in r}

Reachable(s) == ReachableIn(s, Len(Statuses))

\* the statuses that lie on a cycle of allowed transitions
OnCycle == {s \in StatusSet : \E t \in Successors(s) : s \in Reachable(t)}

TerminalStatuses == {"Approved", "Canceled"}

NonTerminalStatuses == StatusSet \ TerminalStatuses

\* a terminal status is reachable from every other status; the statuses on
\* a cycle are OnReview and ForRevision, each the successor of the other;
\* OnReview alone among the non-terminal statuses has no step to Canceled
TransitionGraph ==
    /\ \A s \in TerminalStatuses : Successors(s) = {}
    /\ \A s \in NonTerminalStatuses : Reachable(s) \cap TerminalStatuses # {}
    /\ OnCycle = {"OnReview", "ForRevision"}
    /\ "ForRevision" \in Successors("OnReview")
    /\ "OnReview" \in Successors("ForRevision")
    /\ {s \in NonTerminalStatuses : "Canceled" \notin Successors(s)} = {"OnReview"}

\* the step back from ForRevision to OnReview, which closes the cycle
ResubmitStep ==
    \E t \in tasks, u \in tasks' :
        t.id = u.id /\ t.status = "ForRevision" /\ u.status = "OnReview"

\* task id has a terminal status
Closed(id) == \E t \in tasks : t.id = id /\ t.status \in TerminalStatuses

\* C28 as stated: the graph of allowed transitions is as TransitionGraph says,
\* and in a run that takes the step ForRevision -> OnReview only finitely
\* often every task that exists reaches Approved or Canceled.
C28_EveryTaskCloses ==
    /\ []TransitionGraph
    /\ (<>[][~ResubmitStep]_vars)
       => \A id \in TaskIDs : (TaskByID(id) # {}) ~> Closed(id)

\* C28, amended: the graph of allowed transitions is as TransitionGraph says,
\* the status of a task changes along its edges alone, and in a run that takes
\* the step ForRevision -> OnReview only finitely often and leaves no task in
\* one non-terminal status forever, every task that exists reaches Approved or
\* Canceled.
C28_MovedTaskCloses ==
    /\ []TransitionGraph
    /\ [][\A t \in tasks, u \in tasks' :
            (t.id = u.id /\ t.status # u.status) => u.status \in Successors(t.status)
        ]_vars
    /\ ((<>[][~ResubmitStep]_vars)
        /\ \A s \in NonTerminalStatuses :
              ~<>[](\E t \in tasks : t.status = s))
       => \A id \in TaskIDs : (TaskByID(id) # {}) ~> Closed(id)

\* a task that was sent back for revision and then canceled
C28_Witness ==
    /\ calls[Reviewer].pc = "ret" /\ calls[Reviewer].op = "UpdateTaskStatus"
    /\ calls[Reviewer].newStatus = "Canceled" /\ calls[Reviewer].ret = "nil"
    /\ \E t \in tasks : /\ t.id = calls[Reviewer].taskID
                         /\ t.status = "Canceled"
                         /\ t.id \in everOnReview

\* C29: once the calls on an approved act have returned, the file its
\* document_path names, if there is one, is not a document of the drafted act.
C29_PointerToApprovedDocument ==
    \A a \in acts :
        (/\ a.status = ActStatusApproved
         /\ a.document_path # NoPath
         /\ \A q \in Callers : calls[q].pc \in {"idle", "ret"})
        => ReadFile(a.document_path).status # ActStatusDrafted

\* C30: a request that moves a task from InProgress to OnReview passes the
\* check of UpdateTaskStatus whatever results the task has, its write stores
\* OnReview and starts CreateOrUpdateAct, and the task has an act once
\* CreateOrUpdateAct has saved: no step looks at the results.
C30_SubmitIgnoresResults ==
    [][\A p \in Callers :
          /\ (/\ calls[p].pc = "idle" /\ calls'[p].op = "UpdateTaskStatus"
              /\ calls'[p].newStatus = "OnReview"
              /\ \E t \in TaskByID(calls'[p].taskID) : t.status = "InProgress")
             => /\ calls'[p].pc = "uts_update"
                /\ results' = results
          /\ (/\ calls[p].pc = "uts_update" /\ Moved(p)
              /\ calls[p].newStatus = "OnReview")
             => /\ StatusIn(tasks', calls[p].taskID) = "OnReview"
                /\ calls'[p].pc = "coua_query"
                /\ results' = results
          /\ (calls[p].pc = "coua_save" /\ Moved(p))
             => /\ \E a \in acts' : a.task_id = calls[p].taskID
                /\ calls'[p].pc = "ret" /\ calls'[p].ret = "nil"
                /\ results' = results
      ]_vars

\* C30, witness: a task with no result ever recorded, fewer than the elements
\* of its checklist, is Approved and its act is approved
C30_Witness ==
    /\ nextResultID = 1 /\ results = {}
    /\ \E t \in tasks :
          /\ t.status = "Approved"
          /\ Cardinality(ResultsOfTask(t.id)) < Cardinality(ElementsOfTask(t.id))
          /\ \E a \in acts : a.task_id = t.id /\ a.status = ActStatusApproved
    /\ \E p \in Callers :
          /\ calls[p].pc = "ret" /\ calls[p].handler = "SubmitTask"
          /\ calls[p].ret = "nil" /\ calls[p].log = ""

====
